---- MODULE Spec2Model ----
(***************************************************************************)
(* Model of the natural-language query interpreter of src/services/query.py *)
(* (QueryProcessor) over the in-memory Table Store of src/utils/database.py *)
(* built from Config.DATABASE_SCHEMA (src/config/config.py).               *)
(*                                                                         *)
(* Python str values are TLA+ strings, handled character by character with *)
(* Len, SubSeq and \o.  A Python value that may be an int or a str is a    *)
(* tagged record [t |-> "int", v |-> 5] or [t |-> "str", v |-> "x"].        *)
(* A dict is a sequence of <<key, value>> pairs in insertion order.        *)
(* A call either returns or raises: [raised |-> FALSE, value |-> ...] or   *)
(* [raised |-> TRUE, exc |-> [type, message, details]].                    *)
(***************************************************************************)
EXTENDS Integers, Sequences, FiniteSets, TLC

VARIABLES tables, op, input, handler, outcome, memo

vars == <<tables, op, input, handler, outcome, memo>>

-----------------------------------------------------------------------------
(* Characters and strings                                                  *)

UpperLetters == "ABCDEFGHIJKLMNOPQRSTUVWXYZ"

LowerLetters == "abcdefghijklmnopqrstuvwxyz"

Digits == "0123456789"

CharsOf(s) == {SubSeq(s, i, i) : i \in 1..Len(s)}

UpperSet == CharsOf(UpperLetters)

\* the regex class \w
WordChars == CharsOf(UpperLetters) \cup CharsOf(LowerLetters) \cup CharsOf(Digits) \cup {"_"}

\* the regex class \s
SpaceChars == {" ", "\t", "\n"}

LowerChar(c) ==
    IF c \in UpperSet
    THEN LET i == CHOOSE j \in 1..Len(UpperLetters) : SubSeq(UpperLetters, j, j) = c
         IN  SubSeq(LowerLetters, i, i)
    ELSE c

RECURSIVE LowerFrom(_, _)
LowerFrom(s, i) ==
    IF i > Len(s) THEN "" ELSE LowerChar(SubSeq(s, i, i)) \o LowerFrom(s, i + 1)

\* str.lower()
Lower(s) == LowerFrom(s, 1)

StartsAt(q, i, p) == i + Len(p) - 1 <= Len(q) /\ SubSeq(q, i, i + Len(p) - 1) = p

\* p in q
Contains(q, p) == \E i \in 1..(Len(q) - Len(p) + 1) : StartsAt(q, i, p)

\* any(p in q for p in phrases)
ContainsAny(q, phrases) == \E k \in 1..Len(phrases) : Contains(q, phrases[k])

RECURSIVE NatToStr(_)
NatToStr(n) ==
    IF n < 10 THEN SubSeq(Digits, n + 1, n + 1)
    ELSE NatToStr(n \div 10) \o SubSeq(Digits, (n % 10) + 1, (n % 10) + 1)

\* str(n) of an int
IntToStr(n) == IF n < 0 THEN "-" \o NatToStr(0 - n) ELSE NatToStr(n)

IntVal(n) == [t |-> "int", v |-> n]

StrVal(s) == [t |-> "str", v |-> s]

\* the value None
NoneVal == [t |-> "none", v |-> ""]

\* str(x) of a table value
Str(x) == IF x.t = "int" THEN IntToStr(x.v) ELSE IF x.t = "none" THEN "None" ELSE x.v

\* isinstance(x, (int, float))
IsNumeric(x) == x.t = "int"

-----------------------------------------------------------------------------
(* re.search for the patterns of query.py.  A pattern is a sequence of     *)
(* elements: "lit" a literal, "w" \w+, "g" the group (\w+), "s+" \s+,      *)
(* "s*" \s*, "opt" an optional literal, "galt" a group of alternatives.    *)
(* In every pattern of query.py the element after a quantifier cannot      *)
(* start with a character of the quantifier's class, and no two            *)
(* alternatives share a first character, so the greedy match at a start    *)
(* position is the only match there and no backtracking is modelled.       *)

Lit(s) == [k |-> "lit", s |-> s, a |-> <<>>]

Word == [k |-> "w", s |-> "", a |-> <<>>]

Group == [k |-> "g", s |-> "", a |-> <<>>]

Spaces1 == [k |-> "s+", s |-> "", a |-> <<>>]

Spaces0 == [k |-> "s*", s |-> "", a |-> <<>>]

Opt(s) == [k |-> "opt", s |-> s, a |-> <<>>]

GroupAlt(alts) == [k |-> "galt", s |-> "", a |-> alts]

NoMatch == [ok |-> FALSE, groups |-> <<>>]

RECURSIVE SpanEnd(_, _, _)
SpanEnd(q, i, class) ==
    IF i <= Len(q) /\ SubSeq(q, i, i) \in class THEN SpanEnd(q, i + 1, class) ELSE i

RECURSIVE MatchFrom(_, _, _, _, _)
MatchFrom(q, pat, k, i, gs) ==
    IF k > Len(pat) THEN [ok |-> TRUE, groups |-> gs]
    ELSE LET e == pat[k] IN
         CASE e.k = "lit" ->
                IF StartsAt(q, i, e.s) THEN MatchFrom(q, pat, k + 1, i + Len(e.s), gs)
                ELSE NoMatch
           [] e.k = "w" ->
                LET j == SpanEnd(q, i, WordChars) IN
                IF j = i THEN NoMatch ELSE MatchFrom(q, pat, k + 1, j, gs)
           [] e.k = "g" ->
                LET j == SpanEnd(q, i, WordChars) IN
                IF j = i THEN NoMatch
                ELSE MatchFrom(q, pat, k + 1, j, Append(gs, SubSeq(q, i, j - 1)))
           [] e.k = "s+" ->
                LET j == SpanEnd(q, i, SpaceChars) IN
                IF j = i THEN NoMatch ELSE MatchFrom(q, pat, k + 1, j, gs)
           [] e.k = "s*" ->
                MatchFrom(q, pat, k + 1, SpanEnd(q, i, SpaceChars), gs)
           [] e.k = "opt" ->
                IF StartsAt(q, i, e.s) THEN MatchFrom(q, pat, k + 1, i + Len(e.s), gs)
                ELSE MatchFrom(q, pat, k + 1, i, gs)
           [] e.k = "galt" ->
                LET hits == {n \in 1..Len(e.a) : StartsAt(q, i, e.a[n])} IN
                IF hits = {} THEN NoMatch
                ELSE LET n == CHOOSE m \in hits : \A m2 \in hits : m <= m2 IN
                     MatchFrom(q, pat, k + 1, i + Len(e.a[n]), Append(gs, e.a[n]))

\* the least element of a non-empty set of positions or indices
First(S) == CHOOSE i \in S : \A j \in S : i <= j

\* the match at the leftmost of the start positions where the pattern matches
MatchAtFirst(q, pat, starts) ==
    IF starts = {} THEN NoMatch ELSE MatchFrom(q, pat, 1, First(starts), <<>>)

\* re.search(pattern, query): the match at the leftmost start position
Search(q, pat) ==
    MatchAtFirst(q, pat, {i \in 1..(Len(q) + 1) : MatchFrom(q, pat, 1, i, <<>>).ok})

-----------------------------------------------------------------------------
(* Config.DATABASE_SCHEMA and the Table Store                              *)

SalesDef ==
    [name |-> "sales",
     columns |-> <<"id", "product", "amount", "date", "region">>,
     sample_data |-> <<
        <<IntVal(1), StrVal("Laptop"), IntVal(1200), StrVal("2023-01-15"), StrVal("North")>>,
        <<IntVal(2), StrVal("Phone"), IntVal(800), StrVal("2023-01-16"), StrVal("South")>>,
        <<IntVal(3), StrVal("Tablet"), IntVal(450), StrVal("2023-01-17"), StrVal("East")>>,
        <<IntVal(4), StrVal("Laptop"), IntVal(1200), StrVal("2023-01-18"), StrVal("West")>>,
        <<IntVal(5), StrVal("Phone"), IntVal(800), StrVal("2023-01-19"), StrVal("North")>> >>]

CustomersDef ==
    [name |-> "customers",
     columns |-> <<"id", "name", "email", "join_date">>,
     sample_data |-> <<
        <<IntVal(1), StrVal("Alice"), StrVal("alice@example.com"), StrVal("2022-05-10")>>,
        <<IntVal(2), StrVal("Bob"), StrVal("bob@example.com"), StrVal("2022-06-15")>>,
        <<IntVal(3), StrVal("Charlie"), StrVal("charlie@example.com"), StrVal("2022-07-20")>> >>]

ProductsDef ==
    [name |-> "products",
     columns |-> <<"id", "name", "category", "price">>,
     sample_data |-> <<
        <<IntVal(1), StrVal("Laptop"), StrVal("Electronics"), IntVal(1200)>>,
        <<IntVal(2), StrVal("Phone"), StrVal("Electronics"), IntVal(800)>>,
        <<IntVal(3), StrVal("Tablet"), StrVal("Electronics"), IntVal(450)>> >>]

\* the schema as shipped
DATABASE_SCHEMA == <<SalesDef, CustomersDef, ProductsDef>>

\* dict(zip(columns, row))
ZipRow(columns, row) ==
    LET n == IF Len(columns) < Len(row) THEN Len(columns) ELSE Len(row) IN
    [i \in 1..n |-> <<columns[i], row[i]>>]

\* Database._initialize_database: self.tables, in insertion order
InitializeDatabase(schema) ==
    [i \in 1..Len(schema) |->
        [name |-> schema[i].name,
         rows |-> [r \in 1..Len(schema[i].sample_data) |->
                      ZipRow(schema[i].columns, schema[i].sample_data[r])]]]

\* Database.get_table_names
get_table_names(tbls) == [i \in 1..Len(tbls) |-> tbls[i].name]

table_exists(tbls, name) == \E i \in 1..Len(tbls) : tbls[i].name = name

\* Database.get_table: self.tables.get(table_name, [])
get_table(tbls, name) ==
    IF table_exists(tbls, name)
    THEN tbls[CHOOSE i \in 1..Len(tbls) : tbls[i].name = name].rows
    ELSE <<>>

\* Database.get_table_columns: None for an unknown or an empty table
get_table_columns(tbls, name) ==
    IF ~table_exists(tbls, name) \/ get_table(tbls, name) = <<>>
    THEN [none |-> TRUE, cols |-> <<>>]
    ELSE LET first == get_table(tbls, name)[1] IN
         [none |-> FALSE, cols |-> [i \in 1..Len(first) |-> first[i][1]]]

\* dict.get(key, default)
DictGet(d, key, default) ==
    IF \E i \in 1..Len(d) : d[i][1] = key
    THEN d[CHOOSE i \in 1..Len(d) : d[i][1] = key][2]
    ELSE default

InSeq(x, s) == \E i \in 1..Len(s) : s[i] = x

-----------------------------------------------------------------------------
(* Exceptions (src/utils/errors.py) and call results                       *)

ListVal(items) == [t |-> "list", v |-> items]

RECURSIVE ReprItems(_, _)
ReprItems(items, i) ==
    IF i > Len(items) THEN ""
    ELSE (IF i > 1 THEN ", " ELSE "") \o "'" \o items[i] \o "'" \o ReprItems(items, i + 1)

\* repr of a details value; only lists of plain names and None reach it
ReprVal(x) == IF x.t = "list" THEN "[" \o ReprItems(x.v, 1) \o "]" ELSE "None"

RECURSIVE ReprPairs(_, _)
ReprPairs(d, i) ==
    IF i > Len(d) THEN ""
    ELSE (IF i > 1 THEN ", " ELSE "") \o "'" \o d[i][1] \o "': " \o ReprVal(d[i][2])
         \o ReprPairs(d, i + 1)

\* repr of a details dict
ReprDict(d) == "{" \o ReprPairs(d, 1) \o "}"

\* InvalidQueryError(message, details=details): self.details = details or {}
InvalidQueryError(message, details) ==
    [type |-> "InvalidQueryError", message |-> message, details |-> details]

\* DatabaseError(message, details=details)
DatabaseError(message, details) ==
    [type |-> "DatabaseError", message |-> message, details |-> details]

\* a built-in exception (TypeError, UnboundLocalError): str(e) is its message
BuiltinError(type, message) == [type |-> type, message |-> message, details |-> <<>>]

\* str(e): __str__ of the two error classes (query, operation and table are never set)
ExcStr(e) ==
    IF e.type \in {"InvalidQueryError", "DatabaseError"}
    THEN e.type \o ": " \o e.message
         \o (IF e.details # <<>> THEN "\nDetails: " \o ReprDict(e.details) ELSE "")
    ELSE e.message

Return(v) == [raised |-> FALSE, value |-> v]

Raise(e) == [raised |-> TRUE, exc |-> e]

-----------------------------------------------------------------------------
(* QueryProcessor: classification predicates                               *)

COLUMN_MAPPINGS ==
    << <<"amount", <<"amount", "total", "sum", "value", "price", "sales", "revenue">> >>,
       <<"price", <<"price", "cost", "value", "amount", "rate">> >> >>

\* the candidate columns every caller passes
PossibleColumns == <<"amount", "price">>

SupportedIntents == <<"select_all", "count", "sum", "avg", "filter">>

\* the first of the names at the indices hits, or None
FirstTable(names, hits) ==
    IF hits = {} THEN [none |-> TRUE, table |-> ""]
    ELSE [none |-> FALSE, table |-> names[First(hits)]]

\* _find_table_in_query: the first table name occurring in the query, or None
_find_table_in_query(tbls, q) ==
    FirstTable(get_table_names(tbls),
               {i \in 1..Len(tbls) : Contains(q, get_table_names(tbls)[i])})

_is_sum(q) ==
    ContainsAny(q, <<"sum of", "total", "add up", "what is the total",
                     "calculate the total", "total amount of", "sum amount of">>)

filter_keywords == <<"where", "filter", "with", "equals", "=", "is">>

\* rf"{kw}\s+\w+\s*=\s*'?\w+'?"
FilterRegex(kw) ==
    <<Lit(kw), Spaces1, Word, Spaces0, Lit("="), Spaces0, Opt("'"), Word, Opt("'")>>

_is_filter(tbls, q) ==
    /\ ContainsAny(q, filter_keywords)
    /\ ~_find_table_in_query(tbls, q).none
    /\ \E k \in 1..Len(filter_keywords) : Search(q, FilterRegex(filter_keywords[k])).ok

_is_select_all(q) == ContainsAny(q, <<"show me all", "list all", "get all", "display all">>)

_is_count(q) == Contains(q, "how many") \/ Contains(q, "count")

_is_avg(q) == Contains(q, "average") \/ Contains(q, "avg")

-----------------------------------------------------------------------------
(* QueryProcessor: extraction                                              *)

\* return table / raise InvalidQueryError("Could not determine table name", ...)
TableOrError(tbls, found) ==
    IF ~found.none THEN Return(found.table)
    ELSE Raise(InvalidQueryError("Could not determine table name",
                 << <<"available_tables", ListVal(get_table_names(tbls))>> >>))

_extract_table_name(tbls, q) == TableOrError(tbls, _find_table_in_query(tbls, q))

\* the raise that ends _extract_table_and_column, with the columns of the table
NoColumnError(cols) ==
    InvalidQueryError("Could not determine column to process",
        << <<"available_columns", IF cols.none THEN NoneVal ELSE ListVal(cols.cols)>> >>)

\* the loop over COLUMN_MAPPINGS.items() from entry k on; `col in None` is a TypeError
RECURSIVE SynonymLookup(_, _, _, _)
SynonymLookup(q, table, cols, k) ==
    IF k > Len(COLUMN_MAPPINGS) THEN Raise(NoColumnError(cols))
    ELSE IF ContainsAny(q, COLUMN_MAPPINGS[k][2])
         THEN IF cols.none
              THEN Raise(BuiltinError("TypeError", "argument of type 'NoneType' is not iterable"))
              ELSE IF InSeq(COLUMN_MAPPINGS[k][1], cols.cols)
                   THEN Return(<<table, COLUMN_MAPPINGS[k][1]>>)
                   ELSE SynonymLookup(q, table, cols, k + 1)
         ELSE SynonymLookup(q, table, cols, k + 1)

\* the column steps of _extract_table_and_column for an extracted table
ColumnFor(tbls, q, possible_columns, table, direct) ==
    IF Contains(q, "total amount of") \/ Contains(q, "sum of amount")
    THEN Return(<<table, "amount">>)
    ELSE IF Contains(q, "total price of") \/ Contains(q, "sum of price")
    THEN Return(<<table, "price">>)
    ELSE IF direct # {}
    THEN Return(<<table, possible_columns[First(direct)]>>)
    ELSE SynonymLookup(q, table, get_table_columns(tbls, table), 1)

\* the try body of _extract_table_and_column, t the result of _extract_table_name
ExtractTableAndColumnBody(tbls, q, possible_columns, t) ==
    IF t.raised THEN t
    ELSE ColumnFor(tbls, q, possible_columns, t.value,
                   {i \in 1..Len(possible_columns) : Contains(q, possible_columns[i])})

\* except Exception as e: raise InvalidQueryError(prefix + str(e))
WrapInvalid(prefix, r) ==
    IF r.raised THEN Raise(InvalidQueryError(prefix \o ExcStr(r.exc), <<>>)) ELSE r

_extract_table_and_column(tbls, q, possible_columns) ==
    WrapInvalid("Failed to extract table/column: ",
                ExtractTableAndColumnBody(tbls, q, possible_columns, _extract_table_name(tbls, q)))

FilterPatterns ==
    << <<Lit("show me all "), Group, Spaces1, Lit("where"), Spaces1, Group, Spaces1,
         Lit("is"), Spaces1, Group>>,
       <<Lit("filter"), Spaces1, Group, Spaces1, Lit("where"), Spaces1, Group, Spaces1,
         Lit("="), Spaces1, Opt("'"), Group, Opt("'")>>,
       <<Lit("get"), Spaces1, Group, Spaces1, Lit("with"), Spaces1, Group, Spaces1,
         Lit("="), Spaces1, Opt("'"), Group, Opt("'")>> >>

\* r"where\s+(\w+)\s+(is|equals|=)\s+'?(\w+)'?"
WherePattern ==
    <<Lit("where"), Spaces1, Group, Spaces1, GroupAlt(<<"is", "equals", "=">>), Spaces1,
      Opt("'"), Group, Opt("'")>>

FilterParseError ==
    InvalidQueryError("Could not parse filter condition",
        << <<"expected_patterns",
             ListVal(<<"Show me all <table> where <column> is <value>",
                       "Filter <table> where <column> = <value>">>)>> >>)

\* the try body of the fallback, t the result of _extract_table_name
FilterFallbackBody(t, where_match) ==
    IF t.raised THEN t
    ELSE IF where_match.ok
    THEN Return(<<t.value, where_match.groups[1], Lower(where_match.groups[3])>>)
    ELSE Raise(FilterParseError)

\* the fallback of _extract_filter_condition, with its try/except
FilterFallback(tbls, q) ==
    WrapInvalid("Failed to extract filter condition: ",
                FilterFallbackBody(_extract_table_name(tbls, q), Search(q, WherePattern)))

\* pattern k matches with three groups
PatternHits(q, k) == Search(q, FilterPatterns[k]).ok /\ Len(Search(q, FilterPatterns[k]).groups) = 3

\* return match.group(1), match.group(2), match.group(3).lower()
GroupsOf(m) == Return(<<m.groups[1], m.groups[2], Lower(m.groups[3])>>)

\* the pattern loop from pattern k on, then the fallback
RECURSIVE TryPatterns(_, _, _)
TryPatterns(tbls, q, k) ==
    IF k > Len(FilterPatterns) THEN FilterFallback(tbls, q)
    ELSE IF PatternHits(q, k) THEN GroupsOf(Search(q, FilterPatterns[k]))
    ELSE TryPatterns(tbls, q, k + 1)

_extract_filter_condition(tbls, q) == TryPatterns(tbls, q, 1)

-----------------------------------------------------------------------------
(* QueryProcessor: execution                                               *)

\* a Python float, kept exact as num/den
FloatVal(num, den) == [t |-> "float", num |-> num, den |-> den]

RECURSIVE SumColumn(_, _, _)
SumColumn(data, column, i) ==
    IF i > Len(data) THEN 0
    ELSE DictGet(data[i], column, NoneVal).v + SumColumn(data, column, i + 1)

\* all(isinstance(item.get(column), (int, float)) for item in data)
AllNumeric(data, column) ==
    \A i \in 1..Len(data) : IsNumeric(DictGet(data[i], column, NoneVal))

\* sum(float(item[column]) for item in data): the int 0 over no items
SumFloat(data, column) ==
    IF data = <<>> THEN IntVal(0) ELSE FloatVal(SumColumn(data, column, 1), 1)

\* the sum of the numeric values of a column, the other values passed over
RECURSIVE SumNumeric(_, _, _)
SumNumeric(data, column, i) ==
    IF i > Len(data) THEN 0
    ELSE (IF IsNumeric(DictGet(data[i], column, NoneVal))
          THEN DictGet(data[i], column, NoneVal).v ELSE 0)
         + SumNumeric(data, column, i + 1)

\* a sum that passes over the records whose value is not numeric
SumOfNumericOnly(table, column, data) ==
    Return([status |-> "success", query_type |-> "sum", table |-> table,
            column |-> column, total |-> FloatVal(SumNumeric(data, column, 1), 1)])

\* the rest of _process_sum once table and column are extracted
SumOf(table, column, data) ==
    IF ~AllNumeric(data, column)
    THEN Raise(DatabaseError(
           "Failed to calculate sum for " \o column \o " in " \o table,
           << <<"error", StrVal(ExcStr(InvalidQueryError(
                  "Column '" \o column \o "' is not numeric", <<>>)))>> >>))
    ELSE Return([status |-> "success", query_type |-> "sum", table |-> table,
                 column |-> column, total |-> SumFloat(data, column)])

\* on a failed extraction the except clause of _process_sum reads `column`
\* and `table`, which were never bound
SumAfterExtraction(tbls, e) ==
    IF e.raised
    THEN Raise(BuiltinError("UnboundLocalError",
               "cannot access local variable 'column' where it is not associated with a value"))
    ELSE SumOf(e.value[1], e.value[2], get_table(tbls, e.value[1]))

_process_sum(tbls, q) ==
    SumAfterExtraction(tbls, _extract_table_and_column(tbls, q, PossibleColumns))

\* a partial match: value.lower() in str(item.get(column, "")).lower()
FilterMatchesPartial(item, column, value) ==
    Contains(Lower(Str(DictGet(item, column, StrVal("")))), Lower(value))

\* str(item.get(column, "")).lower() == value.lower()
FilterMatches(item, column, value) ==
    Lower(Str(DictGet(item, column, StrVal("")))) = Lower(value)

\* the success payload of _process_filter
FilterPayload(table, column, value, filtered) ==
    Return([status |-> "success", query_type |-> "filter", table |-> table,
            filter_column |-> column, filter_value |-> value,
            results |-> filtered, count |-> Len(filtered)])

\* the list comprehension of _process_filter
FilterOf(table, column, value, data) ==
    FilterPayload(table, column, value,
                  SelectSeq(data, LAMBDA item : FilterMatches(item, column, value)))

FilterAfterExtraction(tbls, e) ==
    IF e.raised
    THEN Raise(DatabaseError("Failed to filter records: " \o ExcStr(e.exc), <<>>))
    ELSE FilterOf(e.value[1], e.value[2], e.value[3], get_table(tbls, e.value[1]))

_process_filter(tbls, q) == FilterAfterExtraction(tbls, _extract_filter_condition(tbls, q))

\* the success payload of _process_select_all
SelectAllPayload(table, data) ==
    Return([status |-> "success", query_type |-> "select_all", table |-> table,
            results |-> data, count |-> Len(data)])

\* select_all that applies a where clause it finds in the query
SelectAllWhere(tbls, t, w) ==
    IF t.raised
    THEN Raise(DatabaseError("Failed to retrieve data: " \o ExcStr(t.exc), <<>>))
    ELSE IF w.ok
    THEN SelectAllPayload(t.value,
            SelectSeq(get_table(tbls, t.value),
                      LAMBDA item : FilterMatches(item, w.groups[1], w.groups[3])))
    ELSE SelectAllPayload(t.value, get_table(tbls, t.value))

SelectAllFiltered(tbls, q) ==
    SelectAllWhere(tbls, _extract_table_name(tbls, q), Search(q, WherePattern))

SelectAllAfterExtraction(tbls, t) ==
    IF t.raised
    THEN Raise(DatabaseError("Failed to retrieve data: " \o ExcStr(t.exc), <<>>))
    ELSE SelectAllPayload(t.value, get_table(tbls, t.value))

_process_select_all(tbls, q) == SelectAllAfterExtraction(tbls, _extract_table_name(tbls, q))

CountAfterExtraction(tbls, t) ==
    IF t.raised
    THEN Raise(DatabaseError("Failed to count records: " \o ExcStr(t.exc), <<>>))
    ELSE Return([status |-> "success", query_type |-> "count", table |-> t.value,
                 count |-> Len(get_table(tbls, t.value))])

_process_count(tbls, q) == CountAfterExtraction(tbls, _extract_table_name(tbls, q))

\* the rest of _process_avg once table and column are extracted
AverageOf(table, column, data) ==
    IF data = <<>>
    THEN Return([status |-> "success", query_type |-> "average", table |-> table,
                 column |-> column, average |-> IntVal(0), count |-> 0,
                 warning |-> "Table is empty"])
    ELSE IF ~AllNumeric(data, column)
    THEN Raise(DatabaseError("Failed to calculate average: " \o ExcStr(
           InvalidQueryError("Column '" \o column \o "' is not numeric", <<>>)), <<>>))
    ELSE Return([status |-> "success", query_type |-> "average", table |-> table,
                 column |-> column,
                 average |-> FloatVal(SumColumn(data, column, 1), Len(data)),
                 count |-> Len(data)])

AverageAfterExtraction(tbls, e) ==
    IF e.raised
    THEN Raise(DatabaseError("Failed to calculate average: " \o ExcStr(e.exc), <<>>))
    ELSE AverageOf(e.value[1], e.value[2], get_table(tbls, e.value[1]))

_process_avg(tbls, q) ==
    AverageAfterExtraction(tbls, _extract_table_and_column(tbls, q, PossibleColumns))

\* not natural_query or not isinstance(natural_query, str)
BadInput(inp) == inp.t # "str" \/ inp.v = ""

EmptyQueryError == InvalidQueryError("Query must be a non-empty string", <<>>)

NoIntentError ==
    InvalidQueryError("Could not determine query intent",
                      << <<"supported_intents", ListVal(SupportedIntents)>> >>)

\* the chain with the filter test moved before the sum test
ProcessHandlerFilterFirst(tbls, q) ==
    IF _is_filter(tbls, q) THEN "filter"
    ELSE IF _is_sum(q) THEN "sum"
    ELSE IF _is_select_all(q) THEN "select_all"
    ELSE IF _is_count(q) THEN "count"
    ELSE IF _is_avg(q) THEN "average"
    ELSE "none"

\* the if/elif chain of process_query: the handler it runs for a lowercased query
ProcessHandler(tbls, q) ==
    IF _is_sum(q) THEN "sum"
    ELSE IF _is_filter(tbls, q) THEN "filter"
    ELSE IF _is_select_all(q) THEN "select_all"
    ELSE IF _is_count(q) THEN "count"
    ELSE IF _is_avg(q) THEN "average"
    ELSE "none"

\* the branch of the chain taken for handler h
RunHandler(tbls, query, h) ==
    CASE h = "sum" -> _process_sum(tbls, query)
      [] h = "filter" -> _process_filter(tbls, query)
      [] h = "select_all" -> _process_select_all(tbls, query)
      [] h = "count" -> _process_count(tbls, query)
      [] h = "average" -> _process_avg(tbls, query)
      [] OTHER -> Raise(NoIntentError)

\* the try body of process_query on the lowercased query
ProcessLowered(tbls, query) == RunHandler(tbls, query, ProcessHandler(tbls, query))

\* the try body of process_query
ProcessBody(tbls, inp) ==
    IF BadInput(inp) THEN Raise(EmptyQueryError) ELSE ProcessLowered(tbls, Lower(inp.v))

\* except DatabaseError: raise / except Exception as e: raise InvalidQueryError(...)
ProcessExcept(r) ==
    IF r.raised /\ r.exc.type # "DatabaseError"
    THEN Raise(InvalidQueryError("Error processing query: " \o ExcStr(r.exc), <<>>))
    ELSE r

process_query(tbls, inp) == ProcessExcept(ProcessBody(tbls, inp))

-----------------------------------------------------------------------------
(* QueryProcessor.explain_query                                            *)

\* the explanation of a sum or average query (verb "summation" / "averaging")
AggregateExplanation(inp, kind, verb, table, column) ==
    Return([status |-> "success", query |-> inp, query_type |-> kind,
            table |-> table, column |-> StrVal(column),
            processing_steps |->
               <<"Identified as " \o kind \o " query",
                 "Extracted table name: " \o table,
                 "Selected column for " \o verb \o ": " \o column,
                 "Will calculate " \o kind \o " of " \o column \o " values from "
                    \o table \o " table">>])

ExplainAggregate(inp, kind, verb, e) ==
    IF e.raised THEN e ELSE AggregateExplanation(inp, kind, verb, e.value[1], e.value[2])

FilterExplanation(inp, table, column, value) ==
    Return([status |-> "success", query |-> inp, query_type |-> "filter",
            table |-> table, column |-> NoneVal,
            filter_column |-> column, filter_value |-> value,
            processing_steps |->
               <<"Identified as filter query",
                 "Extracted table name: " \o table,
                 "Identified filter condition: " \o column \o " = " \o value,
                 "Will retrieve records from " \o table \o " where " \o column
                    \o " matches " \o value>>])

ExplainFilter(inp, e) ==
    IF e.raised THEN e ELSE FilterExplanation(inp, e.value[1], e.value[2], e.value[3])

\* the explanation of a select_all or count query
ExplainTableOnly(inp, kind, noun, t) ==
    IF t.raised THEN t
    ELSE Return([status |-> "success", query |-> inp, query_type |-> kind,
                 table |-> t.value, column |-> NoneVal,
                 processing_steps |->
                    <<"Identified as " \o noun \o " query",
                      "Extracted table name: " \o t.value,
                      IF kind = "count"
                      THEN "Will count all records in " \o t.value \o " table"
                      ELSE "Will retrieve all records from " \o t.value \o " without filtering">>])

\* the if/elif chain of explain_query on the lowercased query
ExplainLowered(tbls, inp, query) ==
    IF _is_sum(query)
    THEN ExplainAggregate(inp, "sum", "summation",
                          _extract_table_and_column(tbls, query, PossibleColumns))
    ELSE IF _is_filter(tbls, query)
    THEN ExplainFilter(inp, _extract_filter_condition(tbls, query))
    ELSE IF _is_select_all(query)
    THEN ExplainTableOnly(inp, "select_all", "select all", _extract_table_name(tbls, query))
    ELSE IF _is_count(query)
    THEN ExplainTableOnly(inp, "count", "count", _extract_table_name(tbls, query))
    ELSE IF _is_avg(query)
    THEN ExplainAggregate(inp, "average", "averaging",
                          _extract_table_and_column(tbls, query, PossibleColumns))
    ELSE Raise(NoIntentError)

\* the try body of explain_query
ExplainBody(tbls, inp) ==
    IF BadInput(inp) THEN Raise(EmptyQueryError) ELSE ExplainLowered(tbls, inp, Lower(inp.v))

\* except InvalidQueryError as e: the error payload
ExplainInvalid(inp, e) ==
    [status |-> "error", error |-> "InvalidQueryError", message |-> ExcStr(e),
     query |-> inp, details |-> e.details,
     suggestion |-> "Try rephrasing your query using one of the supported patterns"]

\* except Exception as e: the error payload, its suggestion inside details
ExplainOther(inp, e) ==
    [status |-> "error", error |-> "ExplanationError",
     message |-> "Could not explain query: " \o ExcStr(e),
     query |-> inp,
     details |-> << <<"type", StrVal(e.type)>>,
                    <<"suggestion", StrVal("Check your query syntax and try again")>> >>]

\* explain_query without its except clauses
ExplainQueryUncaught(tbls, inp) == ExplainBody(tbls, inp)

\* the two except clauses of explain_query
ExplainExcept(inp, r) ==
    IF ~r.raised THEN r
    ELSE IF r.exc.type = "InvalidQueryError" THEN Return(ExplainInvalid(inp, r.exc))
    ELSE Return(ExplainOther(inp, r.exc))

explain_query(tbls, inp) == ExplainExcept(inp, ExplainBody(tbls, inp))

-----------------------------------------------------------------------------
(* QueryProcessor.validate_query                                           *)

\* validation_result as first built
NewReport(inp) ==
    [status |-> "success", valid |-> TRUE, query |-> inp,
     components |-> [table |-> NoneVal, columns |-> <<>>, conditions |-> <<>>],
     issues |-> <<>>]

\* except Exception as e: valid = False, issues.append(str(e))
ExtractionIssue(base, e) == [base EXCEPT !.valid = FALSE, !.issues = <<ExcStr(e.exc)>>]

\* the sum branch of the extraction chain
ValidateSum(base, e) ==
    IF e.raised THEN ExtractionIssue(base, e)
    ELSE [base EXCEPT !.components.table = StrVal(e.value[1]),
                      !.components.columns = <<e.value[2]>>]

\* the filter branch of the extraction chain
ValidateFilter(base, e) ==
    IF e.raised THEN ExtractionIssue(base, e)
    ELSE [base EXCEPT !.components.table = StrVal(e.value[1]),
                      !.components.columns = <<e.value[2]>>,
                      !.components.conditions =
                         <<[column |-> e.value[2], operator |-> "=", value |-> e.value[3]]>>]

\* validation_result after the extraction chain (lines 394-421)
ValidateExtract(tbls, inp, query) ==
    IF _is_sum(query)
    THEN ValidateSum(NewReport(inp), _extract_table_and_column(tbls, query, PossibleColumns))
    ELSE IF _is_filter(tbls, query)
    THEN ValidateFilter(NewReport(inp), _extract_filter_condition(tbls, query))
    ELSE [NewReport(inp) EXCEPT !.valid = FALSE, !.issues = <<"Could not determine query type">>]

\* if not table or table not in db_instance.get_table_names(): the issue added
CheckTable(tbls, res) ==
    IF \/ res.components.table.t = "none"
       \/ res.components.table.v = ""
       \/ ~InSeq(res.components.table.v, get_table_names(tbls))
    THEN [res EXCEPT !.valid = FALSE,
                     !.issues = Append(@, "Table '" \o Str(res.components.table)
                                          \o "' not found. Available tables: "
                                          \o ReprVal(ListVal(get_table_names(tbls))))]
    ELSE res

\* the issue text for a column missing from a table
ColumnIssue(col, table, cols) ==
    "Column '" \o col \o "' not found in table '" \o table \o "'. Available columns: "
       \o ReprVal(ListVal(cols.cols))

\* the column loop recording a missing column without clearing valid
RECURSIVE ColumnsKeepValid(_, _, _, _)
ColumnsKeepValid(res, table, cols, i) ==
    IF i > Len(res.components.columns) THEN Return(res)
    ELSE IF cols.none
    THEN Raise(BuiltinError("TypeError", "argument of type 'NoneType' is not iterable"))
    ELSE IF ~InSeq(res.components.columns[i], cols.cols)
    THEN ColumnsKeepValid(
           [res EXCEPT !.issues = Append(@, ColumnIssue(res.components.columns[i], table, cols))],
           table, cols, i + 1)
    ELSE ColumnsKeepValid(res, table, cols, i + 1)

CheckColumnsKeepsValid(tbls, res) ==
    ColumnsKeepValid(res, Str(res.components.table),
                     get_table_columns(tbls, Str(res.components.table)), 1)

\* the loop over components.columns from index i on; `col not in None` is a TypeError
RECURSIVE ColumnsLoop(_, _, _, _)
ColumnsLoop(res, table, cols, i) ==
    IF i > Len(res.components.columns) THEN Return(res)
    ELSE IF cols.none
    THEN Raise(BuiltinError("TypeError", "argument of type 'NoneType' is not iterable"))
    ELSE IF ~InSeq(res.components.columns[i], cols.cols)
    THEN ColumnsLoop(
           [res EXCEPT !.valid = FALSE,
                       !.issues = Append(@, ColumnIssue(res.components.columns[i], table, cols))],
           table, cols, i + 1)
    ELSE ColumnsLoop(res, table, cols, i + 1)

\* for col in validation_result["components"]["columns"]: ...
CheckColumns(tbls, res) ==
    ColumnsLoop(res, Str(res.components.table),
                get_table_columns(tbls, Str(res.components.table)), 1)

\* db_instance.get_table(table)[0] if db_instance.get_table(table) else {}
SampleData(data) == IF data # <<>> THEN data[1] ELSE <<>>

\* for sum/avg queries, check the column of the first record is numeric
CheckNumeric(tbls, res, query) ==
    IF (_is_sum(query) \/ _is_avg(query))
       /\ ~IsNumeric(DictGet(SampleData(get_table(tbls, Str(res.components.table))),
                             res.components.columns[1], NoneVal))
    THEN [res EXCEPT !.valid = FALSE,
                     !.issues = Append(@, "Column '" \o res.components.columns[1]
                          \o "' is not numeric and cannot be used for sum/average")]
    ELSE res

\* the numeric check, reached unless the column loop raised
ThenCheckNumeric(tbls, c, query) ==
    IF c.raised THEN c ELSE Return(CheckNumeric(tbls, c.value, query))

\* if validation_result["valid"]: the three checks
ValidateComponents(tbls, res, query) ==
    IF ~res.valid THEN Return(res)
    ELSE ThenCheckNumeric(tbls, CheckColumns(tbls, CheckTable(tbls, res)), query)

\* the try body of validate_query
ValidateBody(tbls, inp) ==
    IF BadInput(inp) THEN Raise(EmptyQueryError)
    ELSE ValidateComponents(tbls, ValidateExtract(tbls, inp, Lower(inp.v)), Lower(inp.v))

\* except Exception as e: the error report
ValidateError(inp, e) ==
    [status |-> "error", valid |-> FALSE, query |-> inp, error |-> ExcStr(e),
     suggestion |-> "Check your query syntax and try again"]

\* the except clause of validate_query
ValidateExcept(inp, r) == IF r.raised THEN Return(ValidateError(inp, r.exc)) ELSE r

validate_query(tbls, inp) == ValidateExcept(inp, ValidateBody(tbls, inp))

-----------------------------------------------------------------------------
(* The inputs of the model                                                 *)

\* how many entries of QueryPool the callers send
NumQueries == 65

\* how many entries of QueryPool the call sequences of SpecSeq send
NumSeqQueries == 20

QueryPool ==
    << "show me all sales",
       "Filter sales where region = 'North'",
       "what is the total amount of sales",
       "how many customers",
       "average price of products",
       "hello world",
       \* one intent each
       "List all products",
       "get all customers",
       "display all products and sales",
       "count products",
       "How many sales are there",
       "sum of price of products",
       "add up the sales",
       "calculate the total revenue of sales",
       "total price of products",
       "total cost of products",
       "total value of customers",
       "avg amount of sales",
       "average of sales",
       "average cost of products",
       "average rate of products",
       "average value of customers",
       "average age of customers",
       \* the filter phrasings
       "show me all sales where region is north",
       "show me all sales where region equals north",
       "filter sales where region is north",
       "filter sales where region = north",
       "show me sales where region equals north",
       "get sales with region = north",
       "get products with name = 'Phone'",
       "show me all customers where name is Bob",
       "filter customers where name = 'alice'",
       "filter sales where amount = 1200",
       "filter sales where amount = 12",
       "filter sales where region = nor",
       "filter sales where colour = red",
       "filter sales where date = 2023",
       "filter orders where sales = 1",
       "show me all sales where region = south",
       "sales where product = laptop",
       "sales where this region = east",
       "filter sales where region=west",
       \* several intents at once
       "total sales where region = north",
       "show me all sales total",
       "count all sales where region = north",
       "how many sales on average",
       "show me all and count products",
       "list all products with average price",
       "subtotal of sales",
       "discount on products",
       \* no known table
       "show me all orders",
       "how many orders",
       "what is the total revenue",
       "average price of orders",
       "sum of amount",
       \* no intent
       "describe sales",
       "sales",
       "filter sales",
       "where is bob",
       \* upper case and blanks
       "SHOW ME ALL SALES",
       "Average Price Of Products",
       " ",
       \* a resolved column the table does not have
       "sum of price of sales",
       "average amount of products",
       "avg price of customers",
       \* two more ordinary queries
       "list all sales and customers",
       "count sales" >>

\* None, 0, 42 and the empty string
OtherInputs == {NoneVal, IntVal(0), IntVal(42), StrVal("")}

PoolPrefix(n) ==
    {StrVal(QueryPool[i]) : i \in 1..(IF n < Len(QueryPool) THEN n ELSE Len(QueryPool))}

Inputs == PoolPrefix(NumQueries) \cup OtherInputs

SeqInputs == PoolPrefix(NumSeqQueries) \cup {NoneVal}

\* the schema with the sample_data of table k empty
WithEmptyTable(schema, k) ==
    [i \in 1..Len(schema) |-> IF i = k THEN [schema[i] EXCEPT !.sample_data = <<>>] ELSE schema[i]]

\* the schema with the value at position c of record r of table k kept as text
WithTextValue(schema, k, r, c) ==
    [schema EXCEPT ![k].sample_data[r][c] = StrVal(Str(@))]

\* the schemas the Table Store is built from: the shipped one, it with one
\* table empty, and it with the amount of the third sale kept as the text "450"
Schemas ==
    {DATABASE_SCHEMA, WithTextValue(DATABASE_SCHEMA, 1, 3, 3)}
        \cup {WithEmptyTable(DATABASE_SCHEMA, k) : k \in {1, 3}}

SeedTables == InitializeDatabase(DATABASE_SCHEMA)

-----------------------------------------------------------------------------
(* The state machine: db_instance is built once, then callers call the     *)
(* three entry points in any order with any input.                        *)

NoMemo == [set |-> FALSE]

\* no request in progress: Query, Intent and Extraction Result are per request
Idle == Return([status |-> "idle"])

Init ==
    /\ tables \in {InitializeDatabase(s) : s \in Schemas}
    /\ op = "idle"
    /\ input = NoneVal
    /\ handler = "none"
    /\ outcome = Idle
    /\ memo = NoMemo

\* the handler process_query runs for an input
HandlerFor(tbls, inp) == IF BadInput(inp) THEN "none" ELSE ProcessHandler(tbls, Lower(inp.v))

\* a call of process_query whose filter handler filters the stored list in place
ProcessCallFilteringInPlace(inp) ==
    /\ op = "idle"
    /\ op' = "process"
    /\ input' = inp
    /\ handler' = HandlerFor(tables, inp)
    /\ outcome' = process_query(tables, inp)
    /\ tables' = IF handler' = "filter" /\ ~outcome'.raised
                 THEN [i \in 1..Len(tables) |->
                         IF tables[i].name = outcome'.value.table
                         THEN [tables[i] EXCEPT !.rows = outcome'.value.results]
                         ELSE tables[i]]
                 ELSE tables

\* a call of process_query
ProcessCall(inp) ==
    /\ op = "idle"
    /\ op' = "process"
    /\ input' = inp
    /\ handler' = HandlerFor(tables, inp)
    /\ outcome' = process_query(tables, inp)
    /\ tables' = tables

\* a call of explain_query
ExplainCall(inp) ==
    /\ op = "idle"
    /\ op' = "explain"
    /\ input' = inp
    /\ handler' = "none"
    /\ outcome' = explain_query(tables, inp)
    /\ tables' = tables

\* a call of validate_query
ValidateCall(inp) ==
    /\ op = "idle"
    /\ op' = "validate"
    /\ input' = inp
    /\ handler' = "none"
    /\ outcome' = validate_query(tables, inp)
    /\ tables' = tables

\* the caller has taken the payload or the error; the next request may come
Respond ==
    /\ op # "idle"
    /\ op' = "idle"
    /\ input' = NoneVal
    /\ handler' = "none"
    /\ outcome' = Idle
    /\ UNCHANGED <<tables, memo>>

ProcessQuery == \E inp \in Inputs : ProcessCall(inp) /\ UNCHANGED memo

ExplainQuery == \E inp \in Inputs : ExplainCall(inp) /\ UNCHANGED memo

ValidateQuery == \E inp \in Inputs : ValidateCall(inp) /\ UNCHANGED memo

Next == ProcessQuery \/ ExplainQuery \/ ValidateQuery \/ Respond

Spec == Init /\ [][Next]_vars

\* call sequences in which one earlier process_query call and its outcome are kept
SeqProcess == \E inp \in SeqInputs : ProcessCall(inp) /\ UNCHANGED memo

SeqProcessKept ==
    \E inp \in SeqInputs :
        /\ ~memo.set
        /\ ProcessCall(inp)
        /\ memo' = [set |-> TRUE, input |-> inp, outcome |-> outcome']

SeqExplain == \E inp \in SeqInputs : ExplainCall(inp) /\ UNCHANGED memo

SeqValidate == \E inp \in SeqInputs : ValidateCall(inp) /\ UNCHANGED memo

NextSeq == SeqProcess \/ SeqProcessKept \/ SeqExplain \/ SeqValidate \/ Respond

SpecSeq == Init /\ [][NextSeq]_vars

-----------------------------------------------------------------------------
(* Properties.  The vocabulary below reads the last call off the state.    *)

Processed == op = "process" /\ ~BadInput(input)

\* the lowercased query of the last call
LastQuery == Lower(input.v)

\* the payload returned or the error raised by the last call
Payload == outcome.value

Error == outcome.exc

Succeeded == ~outcome.raised /\ Payload.status = "success"

HasKey(d, key) == \E i \in 1..Len(d) : d[i][1] = key

\* the details mapping d carries the list items under key
CarriesList(d, key, items) ==
    \E i \in 1..Len(d) : d[i][1] = key /\ d[i][2].t = "list" /\ d[i][2].v = items

\* the records the Table Store holds for a table name, none for an unknown name
StoreRows(name) ==
    IF \E i \in 1..Len(tables) : tables[i].name = name
    THEN tables[CHOOSE i \in 1..Len(tables) : tables[i].name = name].rows
    ELSE <<>>

KnownTable(q) == \E i \in 1..Len(tables) : Contains(q, tables[i].name)

\* C1: process_query runs the handler of the first predicate, in the order
\* sum > filter > select_all > count > average, that the lowercased query
\* satisfies, whatever later predicates it satisfies too; a success payload
\* carries that one intent; a query satisfying none is rejected.
C1_PriorityOrder ==
    Processed =>
        LET q == LastQuery
            s == _is_sum(q)
            f == _is_filter(tables, q)
            a == _is_select_all(q)
            c == _is_count(q)
            v == _is_avg(q)
        IN  /\ s => handler = "sum"
            /\ ~s /\ f => handler = "filter"
            /\ ~s /\ ~f /\ a => handler = "select_all"
            /\ ~s /\ ~f /\ ~a /\ c => handler = "count"
            /\ ~s /\ ~f /\ ~a /\ ~c /\ v => handler = "average"
            /\ ~s /\ ~f /\ ~a /\ ~c /\ ~v =>
                  handler = "none" /\ outcome.raised /\ Error.type = "InvalidQueryError"
            /\ Succeeded => Payload.query_type = handler

\* a query with both "total" and "where" that also satisfies the filter predicate
C1_Witness ==
    /\ Processed
    /\ Contains(LastQuery, "total") /\ Contains(LastQuery, "where")
    /\ _is_sum(LastQuery) /\ _is_filter(tables, LastQuery)
    /\ handler = "sum" /\ Succeeded /\ Payload.query_type = "sum"

\* C2: a query that matches an intent predicate but names no known table
\* fails with an InvalidQueryError whose details list all table names.
C2_UnknownTableInvalidQuery ==
    Processed /\ handler # "none" /\ ~KnownTable(LastQuery) =>
        /\ outcome.raised
        /\ Error.type = "InvalidQueryError"
        /\ CarriesList(Error.details, "available_tables", get_table_names(tables))

\* the supported filter phrasings for table T, column C and value V
FilterPhrasings(T, C, V) ==
    { "show me all " \o T \o " where " \o C \o " is " \o V,
      "show me all " \o T \o " where " \o C \o " equals " \o V,
      "filter " \o T \o " where " \o C \o " is " \o V,
      "filter " \o T \o " where " \o C \o " = '" \o V \o "'",
      "show me " \o T \o " where " \o C \o " equals " \o V,
      "get " \o T \o " with " \o C \o " = " \o V }

\* single-word values the phrasings are tried with
PhrasingValues == {"north", "Bob", "Phone"}

\* the indices of the records of data whose column, as lowercased text, is the
\* lowercased value
MatchingRows(data, column, value) ==
    {i \in 1..Len(data) :
        /\ HasKey(data[i], column)
        /\ Lower(Str(data[i][CHOOSE k \in 1..Len(data[i]) : data[i][k][1] = column][2]))
              = Lower(value)}

\* results is data restricted to the indices in idx, in the order of data
IsRestriction(results, data, idx) ==
    /\ Len(results) = Cardinality(idx)
    /\ \A k \in 1..Len(results) :
          results[k] = data[CHOOSE i \in idx : Cardinality({j \in idx : j <= i}) = k]

\* the column names of the records of a table
ColumnsOf(rows) == {rows[r][k][1] : r \in 1..Len(rows), k \in 1..(IF rows = <<>> THEN 0 ELSE Len(rows[1]))}

\* C3: every supported filter phrasing over a known table T, a column C of T
\* and a single-word value V is answered as filter on (T, C, lowercase(V))
\* with only the matching records.
C3_FilterPhrasings ==
    Processed =>
        \A i \in 1..Len(tables) :
            \A C \in ColumnsOf(tables[i].rows) :
                \A V \in PhrasingValues :
                    input.v \in FilterPhrasings(tables[i].name, C, V) =>
                        /\ Succeeded
                        /\ Payload.query_type = "filter"
                        /\ Payload.table = tables[i].name
                        /\ Payload.filter_column = C
                        /\ Payload.filter_value = Lower(V)
                        /\ IsRestriction(Payload.results, tables[i].rows,
                                         MatchingRows(tables[i].rows, C, V))

\* C4: a query processed as filter with extracted (table, column, value)
\* returns exactly the records of the table, in Table Store order, whose
\* column as lowercased text equals the lowercased value, and their count,
\* zero matches being a success; on the seed data (sales, region, north) gives
\* the two records with region North.
C4_FilterResults ==
    Processed /\ handler = "filter" /\ ~_extract_filter_condition(tables, LastQuery).raised =>
        LET x == _extract_filter_condition(tables, LastQuery).value
            data == StoreRows(x[1])
        IN  /\ Succeeded
            /\ Payload.query_type = "filter"
            /\ IsRestriction(Payload.results, data, MatchingRows(data, x[2], x[3]))
            /\ Payload.count = Len(Payload.results)
            /\ tables = SeedTables /\ x = <<"sales", "region", "north">> =>
                  /\ Payload.count = 2
                  /\ Payload.results = <<SeedTables[1].rows[1], SeedTables[1].rows[5]>>

\* the seed filter on region North has run and returned two records
C4_Witness ==
    /\ Processed /\ handler = "filter" /\ Succeeded
    /\ tables = SeedTables
    /\ Payload.table = "sales" /\ Payload.filter_column = "region"
    /\ Payload.filter_value = "north"
    /\ Payload.count = 2
    /\ input.v # LastQuery

\* the columns the schema gives a table
SchemaColumns(name) ==
    LET hits == {i \in 1..Len(DATABASE_SCHEMA) : DATABASE_SCHEMA[i].name = name} IN
    IF hits = {} THEN <<>> ELSE DATABASE_SCHEMA[CHOOSE i \in hits : TRUE].columns

\* the query names a column directly, or by a synonym of a column of the table
ColumnNamed(q, table) ==
    \/ \E i \in 1..Len(PossibleColumns) : Contains(q, PossibleColumns[i])
    \/ \E k \in 1..Len(COLUMN_MAPPINGS) :
          /\ ContainsAny(q, COLUMN_MAPPINGS[k][2])
          /\ InSeq(COLUMN_MAPPINGS[k][1], SchemaColumns(table))

\* C5: an average query over a known table with zero records returns a
\* success payload with average 0, count 0 and a warning, however the column
\* is named in the query (directly or by a synonym).
C5_AverageOfEmptyTable ==
    Processed /\ handler = "average" /\ KnownTable(LastQuery) =>
        LET table == _find_table_in_query(tables, LastQuery).table IN
        StoreRows(table) = <<>> /\ ColumnNamed(LastQuery, table) =>
            /\ Succeeded
            /\ Payload.average = IntVal(0)
            /\ Payload.count = 0
            /\ "warning" \in DOMAIN Payload

\* the extraction the intent h of a query needs
ExtractionFor(q, h) ==
    CASE h \in {"sum", "average"} -> _extract_table_and_column(tables, q, PossibleColumns)
      [] h = "filter" -> _extract_filter_condition(tables, q)
      [] OTHER -> _extract_table_name(tables, q)

\* the failure of classification or extraction on an input, if there is one
FailureOf(inp) ==
    IF BadInput(inp) THEN Raise(EmptyQueryError)
    ELSE LET h == ProcessHandler(tables, Lower(inp.v)) IN
         IF h = "none" THEN Raise(NoIntentError) ELSE ExtractionFor(Lower(inp.v), h)

\* fields that hold table data or values computed from it
DataFields == {"results", "count", "total", "average"}

\* C6: explain_query never raises and returns a payload with status
\* "success" or "error"; when the input is empty or no string, no intent
\* matches or the extraction fails, the payload has status "error", the
\* failure's message and a suggestion; no payload carries table data.
C6_ExplainNeverRaises ==
    op = "explain" =>
        /\ ~outcome.raised
        /\ Payload.status \in {"success", "error"}
        /\ DOMAIN Payload \cap DataFields = {}
        /\ FailureOf(input).raised =>
              /\ Payload.status = "error"
              /\ Payload.message = ExcStr(FailureOf(input).exc)
              /\ \/ "suggestion" \in DOMAIN Payload /\ Payload.suggestion # ""
                 \/ HasKey(Payload.details, "suggestion")

\* explain_query has returned an error payload for a failed table extraction
C6_Witness ==
    /\ op = "explain" /\ ~BadInput(input)
    /\ ProcessHandler(tables, LastQuery) = "select_all"
    /\ _extract_table_name(tables, LastQuery).raised
    /\ ~outcome.raised /\ Payload.status = "error"

\* C7: validate_query never raises and returns a report with a boolean
\* valid; valid is false whenever the report records an issue or an error,
\* and true only with an issues list that is present and empty.
C7_ValidateReport ==
    op = "validate" =>
        /\ ~outcome.raised
        /\ Payload.valid \in BOOLEAN
        /\ "issues" \in DOMAIN Payload /\ Payload.issues # <<>> => ~Payload.valid
        /\ "error" \in DOMAIN Payload => ~Payload.valid
        /\ Payload.valid => "issues" \in DOMAIN Payload /\ Payload.issues = <<>>

\* a report with valid false and a recorded issue about a missing column
C7_Witness ==
    /\ op = "validate" /\ ~outcome.raised
    /\ "issues" \in DOMAIN Payload
    /\ Payload.components.columns # <<>>
    /\ Len(Payload.issues) = 1
    /\ ~Payload.valid

\* C8: no call changes the Table Store, and a process_query call with the
\* input of an earlier process_query call has the outcome of that call.
C8_StoreUnchangedAndRepeatable ==
    [][/\ tables' = tables
       /\ (memo'.set /\ op' = "process" /\ input' = memo'.input) => outcome' = memo'.outcome]_vars

\* a later process_query call repeats the input of a kept earlier one, a
\* failing one, with other calls in between
C8_Witness ==
    /\ memo.set /\ op = "process" /\ input = memo.input
    /\ outcome.raised /\ outcome = memo.outcome

\* C9: a query processed as select_all on a known table T returns count equal
\* to the length of results and results equal to the Table Store's records
\* of T, in order.
C9_SelectAllWholeTable ==
    Processed /\ handler = "select_all" /\ KnownTable(LastQuery) =>
        /\ Succeeded
        /\ Payload.query_type = "select_all"
        /\ Contains(LastQuery, Payload.table)
        /\ \E i \in 1..Len(tables) :
              /\ tables[i].name = Payload.table
              /\ Payload.results = tables[i].rows
        /\ Payload.count = Len(Payload.results)

\* select_all has returned the five seed sales records
C9_Witness ==
    /\ Processed /\ handler = "select_all" /\ Succeeded
    /\ Payload.table = "sales" /\ Payload.count = 5
    /\ Payload.results = SeedTables[1].rows

\* C10: a non-empty string query that satisfies no intent predicate fails
\* with an InvalidQueryError whose details carry the supported intents.
C10_NoIntentDetails ==
    Processed /\ handler = "none" =>
        /\ outcome.raised
        /\ Error.type = "InvalidQueryError"
        /\ CarriesList(Error.details, "supported_intents", SupportedIntents)

\* the values the records of data hold under column, None where a record has none
ColumnValues(data, column) ==
    [i \in 1..Len(data) |->
        IF HasKey(data[i], column)
        THEN data[i][CHOOSE k \in 1..Len(data[i]) : data[i][k][1] = column][2]
        ELSE NoneVal]

RECURSIVE Total(_)
Total(vals) == IF vals = <<>> THEN 0 ELSE Head(vals).v + Total(Tail(vals))

\* C11: a query processed as sum or as average whose table has records and
\* whose resolved column holds a text or no value in some record fails with a
\* DatabaseError, so no total or average is returned; when every record holds
\* a number it succeeds with the arithmetic sum (or mean) of the column,
\* 4450.0 for amount on the seed sales table.
C11_NumericAggregates ==
    Processed /\ handler \in {"sum", "average"}
              /\ ~ExtractionFor(LastQuery, handler).raised =>
        LET x == ExtractionFor(LastQuery, handler).value
            vals == ColumnValues(StoreRows(x[1]), x[2])
        IN  vals # <<>> =>
              IF \E i \in 1..Len(vals) : vals[i].t \in {"str", "none"}
              THEN outcome.raised /\ Error.type = "DatabaseError"
              ELSE /\ Succeeded
                   /\ Payload.table = x[1] /\ Payload.column = x[2]
                   /\ handler = "sum" => Payload.total = FloatVal(Total(vals), 1)
                   /\ handler = "average" =>
                         /\ Payload.average = FloatVal(Total(vals), Len(vals))
                         /\ Payload.count = Len(vals)
                   /\ handler = "sum" /\ tables = SeedTables /\ x = <<"sales", "amount">> =>
                         Payload.total = FloatVal(4450, 1)

\* a sum over a column that holds numbers and one text value has failed
C11_Witness ==
    /\ Processed /\ handler = "sum"
    /\ ~ExtractionFor(LastQuery, "sum").raised
    /\ LET x == ExtractionFor(LastQuery, "sum").value
           vals == ColumnValues(StoreRows(x[1]), x[2])
       IN  /\ \E i \in 1..Len(vals) : vals[i].t = "str"
           /\ \E i \in 1..Len(vals) : vals[i].t = "int"
    /\ outcome.raised /\ Error.type = "DatabaseError"

\* the Table Store has a table of that name
StoredTable(name) == \E i \in 1..Len(tables) : tables[i].name = name

\* the table is stored and the schema gives it that column
StoredColumn(name, column) == StoredTable(name) /\ InSeq(column, SchemaColumns(name))

\* C12: a query processed as filter whose extracted table is not a table of
\* the Table Store, or whose extracted column is not a column of that table,
\* fails with a DatabaseError; so every success payload names a stored table
\* and, for filter, a filter_column of that table.
C12_FilterOnStoredColumns ==
    Processed =>
        /\ handler = "filter" /\ ~ExtractionFor(LastQuery, "filter").raised =>
              LET x == ExtractionFor(LastQuery, "filter").value IN
              ~StoredColumn(x[1], x[2]) =>
                  outcome.raised /\ Error.type = "DatabaseError"
        /\ Succeeded =>
              /\ StoredTable(Payload.table)
              /\ handler = "filter" => StoredColumn(Payload.table, Payload.filter_column)

\* validate_query classifies the query: it tries sum, then filter
ValidateClassifies(q) == _is_sum(q) \/ _is_filter(tables, q)

\* the extraction validate_query runs for a query it classifies
ValidateExtraction(q) == ExtractionFor(q, IF _is_sum(q) THEN "sum" ELSE "filter")

\* the report has an issues list with an entry that begins with the text
HasIssue(text) ==
    /\ ~outcome.raised
    /\ "issues" \in DOMAIN Payload
    /\ \E k \in 1..Len(Payload.issues) : StartsAt(Payload.issues[k], 1, text)

\* C13: validate_query does not stop at the first failed check: once it has
\* classified the query and extracted table and column, each failed check
\* among (1) table not in the Table Store, (2) column not among the table's
\* columns, (3) for a sum the column's value in the first record not numeric,
\* has its own entry in the issues list of the report; a missing table still
\* gives an issues list with the table-not-found entry.
C13_ValidateAccumulates ==
    op = "validate" /\ ~BadInput(input) /\ ValidateClassifies(LastQuery)
                    /\ ~ValidateExtraction(LastQuery).raised =>
        LET x == ValidateExtraction(LastQuery).value
            vals == ColumnValues(StoreRows(x[1]), x[2])
        IN  /\ ~StoredTable(x[1]) => HasIssue("Table '" \o x[1] \o "' not found")
            /\ StoredTable(x[1]) /\ ~StoredColumn(x[1], x[2]) =>
                  HasIssue("Column '" \o x[2] \o "' not found in table '" \o x[1] \o "'")
            /\ _is_sum(LastQuery) /\ vals # <<>> /\ vals[1].t # "int" =>
                  HasIssue("Column '" \o x[2] \o "' is not numeric")

\* C14: validate_query classifies and extracts as process_query does, for all
\* five intents: it reports "Could not determine query type" only for a query
\* that satisfies no intent predicate of process_query, and for a query that
\* process_query answers with a success payload it returns valid true with
\* the table and the column of that payload.
C14_ValidateMirrorsProcess ==
    op = "validate" /\ ~BadInput(input) =>
        /\ HasIssue("Could not determine query type") =>
              ProcessHandler(tables, LastQuery) = "none"
        /\ LET p == process_query(tables, input) IN
            ~p.raised /\ p.value.status = "success" =>
                /\ ~outcome.raised
                /\ Payload.valid
                /\ Payload.components.table = StrVal(p.value.table)
                /\ "column" \in DOMAIN p.value =>
                      Payload.components.columns = <<p.value.column>>
                /\ "filter_column" \in DOMAIN p.value =>
                      Payload.components.columns = <<p.value.filter_column>>

====
